---------------------------- MODULE Spec2Model ----------------------------
(***************************************************************************)
(* LogStriker (src/logstriker.py): the parser state machine of             *)
(* LogParser.parse_beacon_log, the serializer LogEntry.format, the three   *)
(* LogAggregator operations and the two LogWriter loops.                   *)
(*                                                                         *)
(* A Python str is a sequence of characters; a character is a TLA+ string  *)
(* naming it ("0", "/", " ", and TAB, LF, CR, FF for the control           *)
(* characters, AD2/AD3 for ARABIC-INDIC DIGIT TWO/THREE, SUP2 for          *)
(* SUPERSCRIPT TWO).  An Optional value is a sequence of length 0 (None)   *)
(* or 1 (the value).                                                       *)
(***************************************************************************)
EXTENDS Integers, Sequences, FiniteSets, TLC

VARIABLES
    \* parse_beacon_log: arguments
    content, date_folder, now_year,
    \* parse_beacon_log: locals, diagnostics printed, position
    lines, idx, base_year, entries, current_entry, warnings, pc,
    \* LogAggregator: the LogEntry objects, the mapping passed in, the mapping
    \* aggregate_by_ip_and_date returned, the last call
    heap, entries_by_ip, daily, last_call,
    \* LogWriter: the grouping being written, the loop, the file system
    kind, groups, gidx, files_written, files, reported, wpc

parseVars == <<content, date_folder, now_year, lines, idx, base_year,
               entries, current_entry, warnings, pc>>
aggVars == <<heap, entries_by_ip, daily, last_call>>
writeVars == <<kind, groups, gidx, files_written, files, reported, wpc>>
vars == <<parseVars, aggVars, writeVars>>

----------------------------------------------------------------------------
(* Optional[...] *)

None == <<>>
Some(x) == <<x>>
IsNone(o) == o = <<>>
Get(o) == o[1]

(* Sequence helpers *)

Range(s) == {s[i] : i \in 1..Len(s)}
Take(s, n) == SubSeq(s, 1, IF n < Len(s) THEN n ELSE Len(s))

RECURSIVE Concat(_)
Concat(ss) == IF ss = <<>> THEN <<>> ELSE Head(ss) \o Concat(Tail(ss))

RECURSIVE SeqsUpTo(_, _)
SeqsUpTo(S, n) ==
    IF n = 0 THEN {<<>>}
    ELSE LET shorter == SeqsUpTo(S, n - 1)
         IN  shorter \cup {Append(s, x) : s \in {t \in shorter : Len(t) = n - 1}, x \in S}

----------------------------------------------------------------------------
(* Characters, as Python's str methods and the re module classify them *)

AsciiDigits == {"0", "1", "2", "3", "4", "5", "6", "7", "8", "9"}

\* str.isdecimal / regex \d / accepted by int(): Unicode category Nd
IsDecimal(c) == c \in AsciiDigits \cup {"AD2", "AD3"}

\* str.isdigit: Nd and the digits of category No (superscripts)
IsDigit(c) == IsDecimal(c) \/ c = "SUP2"

\* str.isspace / regex \s
IsSpace(c) == c \in {" ", "TAB", "LF", "CR", "FF"}

\* the line boundaries of str.splitlines
IsLineBreak(c) == c \in {"LF", "CR", "FF"}

DigitValue(c) ==
    CASE c = "0" -> 0 [] c = "1" -> 1 [] c = "2" -> 2 [] c = "3" -> 3
      [] c = "4" -> 4 [] c = "5" -> 5 [] c = "6" -> 6 [] c = "7" -> 7
      [] c = "8" -> 8 [] c = "9" -> 9 [] c = "AD2" -> 2 [] c = "AD3" -> 3

DigitChar(n) ==
    CASE n = 0 -> "0" [] n = 1 -> "1" [] n = 2 -> "2" [] n = 3 -> "3"
      [] n = 4 -> "4" [] n = 5 -> "5" [] n = 6 -> "6" [] n = 7 -> "7"
      [] n = 8 -> "8" [] n = 9 -> "9"

\* str.isdigit(): non-empty and every character a digit
StrIsDigit(s) == s # <<>> /\ \A i \in 1..Len(s) : IsDigit(s[i])

\* int(s) succeeds (no sign, no blanks occur in the strings it is given here)
IntOk(s) == s # <<>> /\ \A i \in 1..Len(s) : IsDecimal(s[i])

RECURSIVE IntOf(_)
IntOf(s) ==
    IF s = <<>> THEN 0
    ELSE 10 * IntOf(SubSeq(s, 1, Len(s) - 1)) + DigitValue(s[Len(s)])

\* str.strip(): leading and trailing whitespace removed
RECURSIVE LStrip(_)
LStrip(s) == IF s # <<>> /\ IsSpace(Head(s)) THEN LStrip(Tail(s)) ELSE s

RECURSIVE RStrip(_)
RStrip(s) ==
    IF s # <<>> /\ IsSpace(s[Len(s)]) THEN RStrip(SubSeq(s, 1, Len(s) - 1)) ELSE s

Strip(s) == RStrip(LStrip(s))

\* str.splitlines(): breaks removed, CR LF one break, no empty last line.
\* The line that starts at position a ends before the first break at or after a;
\* the next line starts after that break.
FirstBreak(s, a) ==
    LET bs == {i \in a..Len(s) : IsLineBreak(s[i])}
    IN  IF bs = {} THEN Len(s) + 1 ELSE CHOOSE i \in bs : \A j \in bs : i <= j

BreakLen(s, b) == IF s[b] = "CR" /\ b < Len(s) /\ s[b + 1] = "LF" THEN 2 ELSE 1

RECURSIVE SplitFrom(_, _)
SplitFrom(s, a) ==
    IF a > Len(s) THEN <<>>
    ELSE LET b == FirstBreak(s, a)
         IN  <<SubSeq(s, a, b - 1)>>
             \o (IF b > Len(s) THEN <<>> ELSE SplitFrom(s, b + BreakLen(s, b)))

SplitLines(s) == SplitFrom(s, 1)

\* '\n'.join(ls)
RECURSIVE JoinLF(_)
JoinLF(ls) ==
    IF ls = <<>> THEN <<>>
    ELSE IF Len(ls) = 1 THEN ls[1]
    ELSE ls[1] \o <<"LF">> \o JoinLF(Tail(ls))

----------------------------------------------------------------------------
\* LogParser.TIMESTAMP_PATTERN: two decimals, "/", two decimals; whitespace;
\* dd:dd:dd; whitespace; UTC; whitespace; "[", one or more characters that are
\* not "]", "]"; whitespace; the rest of the line.  Every whitespace run is
\* followed by something that is not whitespace or by the rest of the line, and
\* the kind by "]", so the greedy match is the only one.

\* the first position >= i that holds no whitespace (Len(s) + 1 when none)
RECURSIVE SkipSpaces(_, _)
SkipSpaces(s, i) ==
    IF i <= Len(s) /\ IsSpace(s[i]) THEN SkipSpaces(s, i + 1) ELSE i

\* the first position >= i that holds "]" (Len(s) + 1 when none)
RECURSIVE FindClose(_, _)
FindClose(s, i) ==
    IF i <= Len(s) /\ s[i] # "]" THEN FindClose(s, i + 1) ELSE i

TwoDecimalsAt(s, i) == i + 1 <= Len(s) /\ IsDecimal(s[i]) /\ IsDecimal(s[i + 1])

\* None, or Some of the four groups
TimestampMatch(line) ==
    LET n  == Len(line)
        p2 == SkipSpaces(line, 6)
        p3 == SkipSpaces(line, p2 + 8)
        p4 == SkipSpaces(line, p3 + 3)
        p5 == FindClose(line, p4 + 1)
        p6 == SkipSpaces(line, p5 + 1)
    IN  IF /\ TwoDecimalsAt(line, 1) /\ n >= 3 /\ line[3] = "/" /\ TwoDecimalsAt(line, 4)
           /\ p2 > 6
           /\ TwoDecimalsAt(line, p2) /\ p2 + 7 <= n /\ line[p2 + 2] = ":"
           /\ TwoDecimalsAt(line, p2 + 3) /\ line[p2 + 5] = ":"
           /\ TwoDecimalsAt(line, p2 + 6)
           /\ p3 > p2 + 8
           /\ p3 + 2 <= n /\ line[p3] = "U" /\ line[p3 + 1] = "T" /\ line[p3 + 2] = "C"
           /\ p4 > p3 + 3
           /\ p4 <= n /\ line[p4] = "["
           /\ p5 <= n /\ p5 > p4 + 1
           /\ p6 > p5 + 1
        THEN Some([mm_dd        |-> SubSeq(line, 1, 5),
                   time_str     |-> SubSeq(line, p2, p2 + 7),
                   entry_type   |-> SubSeq(line, p4 + 1, p5 - 1),
                   content_line |-> SubSeq(line, p6, n)])
        ELSE None

----------------------------------------------------------------------------
(* datetime(year, month, day, hour, minute, second, tzinfo=utc) *)

IsLeap(y) == (y % 4 = 0 /\ y % 100 # 0) \/ y % 400 = 0

DaysInMonth(y, m) ==
    IF m = 2 THEN (IF IsLeap(y) THEN 29 ELSE 28)
    ELSE IF m \in {4, 6, 9, 11} THEN 30 ELSE 31

\* the constructor raises ValueError unless every component is in range
DatetimeOk(y, mo, d, h, mi, s) ==
    /\ mo \in 1..12
    /\ d >= 1 /\ d <= DaysInMonth(y, mo)
    /\ h \in 0..23 /\ mi \in 0..59 /\ s \in 0..59

Datetime(y, mo, d, h, mi, s) ==
    [year |-> y, month |-> mo, day |-> d, hour |-> h, minute |-> mi, second |-> s]

\* the try block of parse_beacon_log: None when ValueError is raised
HeaderTimestamp(g, year) ==
    LET month  == IntOf(SubSeq(g.mm_dd, 1, 2))
        day    == IntOf(SubSeq(g.mm_dd, 4, 5))
        hour   == IntOf(SubSeq(g.time_str, 1, 2))
        minute == IntOf(SubSeq(g.time_str, 4, 5))
        second == IntOf(SubSeq(g.time_str, 7, 8))
    IN  IF DatetimeOk(year, month, day, hour, minute, second)
        THEN Some(Datetime(year, month, day, hour, minute, second))
        ELSE None

\* datetime < datetime, both in UTC
TsLess(a, b) ==
    LET ka == <<a.year, a.month, a.day, a.hour, a.minute, a.second>>
        kb == <<b.year, b.month, b.day, b.hour, b.minute, b.second>>
    IN  \E i \in 1..6 : ka[i] < kb[i] /\ \A j \in 1..(i - 1) : ka[j] = kb[j]

----------------------------------------------------------------------------
(* LogEntry and LogEntry.format *)

LogEntry(ts, etype, body, src, ip, df) ==
    [timestamp |-> ts, entry_type |-> etype, content |-> body,
     source_file |-> src, ip_address |-> ip, date_folder |-> df]

TwoDigits(n) == <<DigitChar((n \div 10) % 10), DigitChar(n % 10)>>

\* timestamp.strftime('%m/%d %H:%M:%S')
Strftime(ts) ==
    TwoDigits(ts.month) \o <<"/">> \o TwoDigits(ts.day) \o <<" ">>
    \o TwoDigits(ts.hour) \o <<":">> \o TwoDigits(ts.minute) \o <<":">>
    \o TwoDigits(ts.second)

FormatPrefix(e) ==
    Strftime(e.timestamp) \o <<" ", "U", "T", "C", " ", "[">> \o e.entry_type \o <<"]", " ">>

Format(e) ==
    IF e.content = <<>>
    THEN FormatPrefix(e) \o <<"(", "e", "m", "p", "t", "y", ")">> \o <<"LF">>
    ELSE JoinLF(<<FormatPrefix(e) \o e.content[1]>> \o Tail(e.content)) \o <<"LF">>

----------------------------------------------------------------------------
(* LogParser.parse_beacon_log, one step per loop iteration *)

SourceFile == "beacon_1234.log"
\* the addresses 10.0.0.1 .. 10.0.0.9
IpOf(i) == <<"1", "0", ".", "0", ".", "0", ".", DigitChar(i)>>
IpAddress == Some(IpOf(5))

Warning(k, text) == [kind |-> k, detail |-> text]

\* what the f-string prints for date_folder
DateFolderText(df) == IF IsNone(df) THEN <<"N", "o", "n", "e">> ELSE Get(df)

\* line 266: not date_folder or len(date_folder) != 6 or not date_folder.isdigit()
InvalidDateFolder(df) ==
    IF IsNone(df) THEN TRUE
    ELSE Get(df) = <<>> \/ Len(Get(df)) # 6 \/ ~StrIsDigit(Get(df))

\* date_folder[:2]
YearSuffix(df) == Take(Get(df), 2)

\* lines 280-281, and again 311-312: if current_entry: entries.append(current_entry)
EmitOpen(es, cur) == IF IsNone(cur) THEN es ELSE Append(es, Get(cur))

\* mutant: the line is appended stripped of its surrounding whitespace
AppendLineStripped(cur, line) == Some([Get(cur) EXCEPT !.content = Append(@, Strip(line))])

\* line 307: current_entry.content.append(line)
AppendLine(cur, line) == Some([Get(cur) EXCEPT !.content = Append(@, line)])

\* mutant: the Record that was open stays open
AfterMalformedKeepsOpen(cur) == cur

\* line 304: current_entry = None
AfterMalformed(cur) == None

\* mutant: a blank line is reported as well
OrphanWarningsBlankToo(line) == <<Warning("orphaned_line", Take(line, 50))>>

\* lines 308-309: elif line.strip(): print(... line[:50])
OrphanWarnings(line) ==
    IF Strip(line) # <<>> THEN <<Warning("orphaned_line", Take(line, 50))>> ELSE <<>>

\* lines 263-264: if not content: return []
ParseEmpty ==
    /\ UNCHANGED <<aggVars, writeVars>>
    /\ pc = "start"
    /\ content = <<>>
    /\ pc' = "done"
    /\ entries' = <<>>
    /\ UNCHANGED <<content, date_folder, now_year, lines, idx, base_year,
                   current_entry, warnings>>

\* lines 266-268, 273-276
ParseInvalidDateFolder ==
    /\ UNCHANGED <<aggVars, writeVars>>
    /\ pc = "start"
    /\ content # <<>>
    /\ InvalidDateFolder(date_folder)
    /\ warnings' = Append(warnings, Warning("invalid_date_folder", DateFolderText(date_folder)))
    /\ base_year' = now_year
    /\ entries' = <<>>
    /\ current_entry' = None
    /\ lines' = SplitLines(content)
    /\ idx' = 0
    /\ pc' = "loop"
    /\ UNCHANGED <<content, date_folder, now_year>>

\* lines 269-271, 273-276
ParseValidDateFolder ==
    /\ UNCHANGED <<aggVars, writeVars>>
    /\ pc = "start"
    /\ content # <<>>
    /\ ~InvalidDateFolder(date_folder)
    /\ IntOk(YearSuffix(date_folder))
    /\ base_year' = 2000 + IntOf(YearSuffix(date_folder))
    /\ entries' = <<>>
    /\ current_entry' = None
    /\ lines' = SplitLines(content)
    /\ idx' = 0
    /\ pc' = "loop"
    /\ UNCHANGED <<content, date_folder, now_year, warnings>>

\* line 270: int() raises ValueError, which nothing in the function catches
ParseYearValueError ==
    /\ UNCHANGED <<aggVars, writeVars>>
    /\ pc = "start"
    /\ content # <<>>
    /\ ~InvalidDateFolder(date_folder)
    /\ ~IntOk(YearSuffix(date_folder))
    /\ pc' = "error"
    /\ UNCHANGED <<content, date_folder, now_year, lines, idx, base_year,
                   entries, current_entry, warnings>>

\* lines 277-301: a header whose timestamp can be built
ParseHeader ==
    /\ UNCHANGED <<aggVars, writeVars>>
    /\ pc = "loop"
    /\ idx < Len(lines)
    /\ LET line == lines[idx + 1]
           m    == TimestampMatch(line)
       IN  /\ ~IsNone(m)
           /\ ~IsNone(HeaderTimestamp(Get(m), base_year))
           /\ entries' = EmitOpen(entries, current_entry)
           /\ current_entry' =
                  Some(LogEntry(Get(HeaderTimestamp(Get(m), base_year)),
                                Get(m).entry_type, <<Get(m).content_line>>,
                                SourceFile, IpAddress, date_folder))
    /\ idx' = idx + 1
    /\ UNCHANGED <<content, date_folder, now_year, lines, base_year, warnings, pc>>

\* mutant: the open Record is discarded with the malformed header, not emitted
ParseMalformedHeaderDropsOpen ==
    /\ UNCHANGED <<aggVars, writeVars>>
    /\ pc = "loop"
    /\ idx < Len(lines)
    /\ LET line == lines[idx + 1]
           m    == TimestampMatch(line)
       IN  /\ ~IsNone(m)
           /\ IsNone(HeaderTimestamp(Get(m), base_year))
           /\ warnings' = Append(warnings, Warning("malformed_timestamp", Take(line, 80)))
           /\ current_entry' = None
    /\ idx' = idx + 1
    /\ UNCHANGED <<content, date_folder, now_year, lines, base_year, pc, entries>>

\* lines 277-292, 302-304: a header whose timestamp raises ValueError
ParseMalformedHeader ==
    /\ UNCHANGED <<aggVars, writeVars>>
    /\ pc = "loop"
    /\ idx < Len(lines)
    /\ LET line == lines[idx + 1]
           m    == TimestampMatch(line)
       IN  /\ ~IsNone(m)
           /\ IsNone(HeaderTimestamp(Get(m), base_year))
           /\ entries' = EmitOpen(entries, current_entry)
           /\ warnings' = Append(warnings, Warning("malformed_timestamp", Take(line, 80)))
           /\ current_entry' = AfterMalformed(current_entry)
    /\ idx' = idx + 1
    /\ UNCHANGED <<content, date_folder, now_year, lines, base_year, pc>>

\* lines 305-307
ParseContinuation ==
    /\ UNCHANGED <<aggVars, writeVars>>
    /\ pc = "loop"
    /\ idx < Len(lines)
    /\ IsNone(TimestampMatch(lines[idx + 1]))
    /\ ~IsNone(current_entry)
    /\ current_entry' = AppendLine(current_entry, lines[idx + 1])
    /\ idx' = idx + 1
    /\ UNCHANGED <<content, date_folder, now_year, lines, base_year, entries,
                   warnings, pc>>

\* lines 305-309
ParseOrphan ==
    /\ UNCHANGED <<aggVars, writeVars>>
    /\ pc = "loop"
    /\ idx < Len(lines)
    /\ IsNone(TimestampMatch(lines[idx + 1]))
    /\ IsNone(current_entry)
    /\ warnings' = warnings \o OrphanWarnings(lines[idx + 1])
    /\ idx' = idx + 1
    /\ UNCHANGED <<content, date_folder, now_year, lines, base_year, entries,
                   current_entry, pc>>

\* lines 311-314
ParseReturn ==
    /\ UNCHANGED <<aggVars, writeVars>>
    /\ pc = "loop"
    /\ idx = Len(lines)
    /\ entries' = EmitOpen(entries, current_entry)
    /\ pc' = "done"
    /\ UNCHANGED <<content, date_folder, now_year, lines, idx, base_year,
                   current_entry, warnings>>

----------------------------------------------------------------------------
(* LogAggregator.  A list holds references: heap[o] is the LogEntry object *)
(* o, and a list is a sequence of object numbers.  A dict is the sequence  *)
(* of its items [key, val] in insertion order.                             *)

DictKeys(d) == {d[i].key : i \in 1..Len(d)}

DictIndex(d, k) == CHOOSE i \in 1..Len(d) : d[i].key = k

DictGet(d, k) == d[DictIndex(d, k)].val

\* defaultdict(list): d[k].append(x)
DictAppend(d, k, x) ==
    IF k \in DictKeys(d)
    THEN [d EXCEPT ![DictIndex(d, k)].val = Append(@, x)]
    ELSE Append(d, [key |-> k, val |-> <<x>>])

\* mutant: an element goes before the elements of equal timestamp
RECURSIVE InsertBeforeEqual(_, _, _)
InsertBeforeEqual(h, sorted, o) ==
    IF sorted = <<>> THEN <<o>>
    ELSE IF TsLess(h[Head(sorted)].timestamp, h[o].timestamp)
         THEN <<Head(sorted)>> \o InsertBeforeEqual(h, Tail(sorted), o)
         ELSE <<o>> \o sorted

\* mutant: an element whose timestamp is already in the list is dropped
RECURSIVE InsertUnique(_, _, _)
InsertUnique(h, sorted, o) ==
    IF sorted = <<>> THEN <<o>>
    ELSE IF h[Head(sorted)].timestamp = h[o].timestamp THEN sorted
    ELSE IF TsLess(h[o].timestamp, h[Head(sorted)].timestamp) THEN <<o>> \o sorted
    ELSE <<Head(sorted)>> \o InsertUnique(h, Tail(sorted), o)

\* list.sort is stable: an element goes after the elements that are not greater
RECURSIVE InsertSorted(_, _, _)
InsertSorted(h, sorted, o) ==
    IF sorted = <<>> THEN <<o>>
    ELSE IF TsLess(h[o].timestamp, h[Head(sorted)].timestamp)
         THEN <<o>> \o sorted
         ELSE <<Head(sorted)>> \o InsertSorted(h, Tail(sorted), o)

RECURSIVE SortInto(_, _, _)
SortInto(h, sorted, es) ==
    IF es = <<>> THEN sorted
    ELSE SortInto(h, InsertSorted(h, sorted, Head(es)), Tail(es))

\* entries.sort(key=lambda e: e.timestamp)
SortByTimestamp(h, es) == SortInto(h, <<>>, es)

\* for entries in d.values(): entries.sort(...)
SortValues(h, d) ==
    [i \in 1..Len(d) |-> [key |-> d[i].key, val |-> SortByTimestamp(h, d[i].val)]]

\* line 339: if entry.date_folder  (None and '' are false)
HasDateFolder(e) == ~IsNone(e.date_folder) /\ Get(e.date_folder) # <<>>

\* mutant: the key takes the entry's own ip_address
DailyKeyOfEntry(ip, e) == <<Get(e.ip_address), Get(e.date_folder)>>

\* line 340: key = (ip, entry.date_folder)
DailyKey(ip, e) == <<ip, Get(e.date_folder)>>

\* lines 338-341
RECURSIVE GroupEntries(_, _, _, _)
GroupEntries(h, aggregated, ip, es) ==
    IF es = <<>> THEN aggregated
    ELSE GroupEntries(h,
             IF HasDateFolder(h[Head(es)])
             THEN DictAppend(aggregated, DailyKey(ip, h[Head(es)]), Head(es))
             ELSE aggregated,
             ip, Tail(es))

\* lines 337-341
RECURSIVE GroupItems(_, _, _)
GroupItems(h, aggregated, items) ==
    IF items = <<>> THEN aggregated
    ELSE GroupItems(h, GroupEntries(h, aggregated, Head(items).key, Head(items).val),
                    Tail(items))

Call(op, input, output) == Some([op |-> op, input |-> input, output |-> output])

\* lines 325-330: the lists are sorted in place and the same dict is returned
AggregateByIp ==
    /\ UNCHANGED <<parseVars, writeVars>>
    /\ pc = "agg"
    /\ entries_by_ip' = SortValues(heap, entries_by_ip)
    /\ last_call' = Call("aggregate_by_ip", entries_by_ip, entries_by_ip')
    /\ UNCHANGED <<heap, daily>>

\* lines 332-346: a new dict is built and its lists sorted
AggregateByIpAndDate ==
    /\ UNCHANGED <<parseVars, writeVars>>
    /\ pc = "agg"
    /\ daily' = Some(SortValues(heap, GroupItems(heap, <<>>, entries_by_ip)))
    /\ last_call' = Call("aggregate_by_ip_and_date", entries_by_ip, Get(daily'))
    /\ UNCHANGED <<heap, entries_by_ip>>

\* lines 348-353: as aggregate_by_ip, the keys being category labels
AggregateSystemLogs ==
    /\ UNCHANGED <<parseVars, writeVars>>
    /\ pc = "agg"
    /\ entries_by_ip' = SortValues(heap, entries_by_ip)
    /\ last_call' = Call("aggregate_system_logs", entries_by_ip, entries_by_ip')
    /\ UNCHANGED <<heap, daily>>

----------------------------------------------------------------------------
(* LogWriter.write_complete_logs and write_daily_logs, one step per group. *)
(* The file system is a dict from path to content.                         *)

Str_Complete == <<"c", "o", "m", "p", "l", "e", "t", "e">>
Str_Daily == <<"d", "a", "i", "l", "y">>
Str_Log == <<".", "l", "o", "g">>

\* complete_dir / f"{ip}-Complete.log"
CompletePath(ip) == Str_Complete \o <<"/">> \o ip \o <<"-", "C">> \o Tail(Str_Complete) \o Str_Log

\* daily_dir / f"{ip}-{date_folder}.log"
DailyPath(key) == Str_Daily \o <<"/">> \o key[1] \o <<"-">> \o key[2] \o Str_Log

OutputFile(k, key) == IF k = "complete" THEN CompletePath(key) ELSE DailyPath(key)

\* f.writelines(entry.format() for entry in entries), the first n entries
RECURSIVE RenderFirst(_, _)
RenderFirst(es, n) ==
    IF n = 0 THEN <<>> ELSE RenderFirst(es, n - 1) \o Format(es[n])

Render(es) == RenderFirst(es, Len(es))

\* open(output_file, 'w'): the file is created or truncated, then holds what is written
FilePut(fs, path, text) ==
    IF path \in DictKeys(fs)
    THEN [fs EXCEPT ![DictIndex(fs, path)].val = text]
    ELSE Append(fs, [key |-> path, val |-> text])

\* lines 364-367, 393-396
WriteBegin ==
    /\ UNCHANGED <<parseVars, aggVars>>
    /\ wpc = "start"
    /\ files_written' = 0
    /\ gidx' = 0
    /\ wpc' = "loop"
    /\ UNCHANGED <<kind, groups, files, reported>>

\* lines 365, 394: mkdir raises (the directory cannot be made); nothing catches it
WriteMkdirRaises ==
    /\ UNCHANGED <<parseVars, aggVars>>
    /\ wpc = "start"
    /\ wpc' = "raised"
    /\ UNCHANGED <<kind, groups, gidx, files_written, files, reported>>

\* lines 370-371, 399-400
WriteSkipEmpty ==
    /\ UNCHANGED <<parseVars, aggVars>>
    /\ wpc = "loop"
    /\ gidx < Len(groups)
    /\ groups[gidx + 1].val = <<>>
    /\ gidx' = gidx + 1
    /\ UNCHANGED <<kind, groups, files_written, files, reported, wpc>>

\* lines 373-380, 402-409
WriteGroup ==
    /\ UNCHANGED <<parseVars, aggVars>>
    /\ wpc = "loop"
    /\ gidx < Len(groups)
    /\ groups[gidx + 1].val # <<>>
    /\ files' = FilePut(files, OutputFile(kind, groups[gidx + 1].key),
                        Render(groups[gidx + 1].val))
    /\ files_written' = files_written + 1
    /\ gidx' = gidx + 1
    /\ UNCHANGED <<kind, groups, reported, wpc>>

\* mutant: the first failure ends the loop
WriteGroupFailsAndStops ==
    /\ UNCHANGED <<parseVars, aggVars>>
    /\ wpc = "loop"
    /\ gidx < Len(groups)
    /\ groups[gidx + 1].val # <<>>
    /\ reported' = Append(reported, OutputFile(kind, groups[gidx + 1].key))
    /\ gidx' = Len(groups)
    /\ UNCHANGED <<kind, groups, files_written, files, wpc>>

\* lines 375-377 raise, 381-386 (402-415): open fails and the file is untouched, or
\* a write or the close fails and the file holds the entries written before it
WriteGroupFails ==
    /\ UNCHANGED <<parseVars, aggVars>>
    /\ wpc = "loop"
    /\ gidx < Len(groups)
    /\ groups[gidx + 1].val # <<>>
    /\ \/ files' = files
       \/ \E n \in 0..Len(groups[gidx + 1].val) :
              files' = FilePut(files, OutputFile(kind, groups[gidx + 1].key),
                               RenderFirst(groups[gidx + 1].val, n))
    /\ reported' = Append(reported, OutputFile(kind, groups[gidx + 1].key))
    /\ gidx' = gidx + 1
    /\ UNCHANGED <<kind, groups, files_written, wpc>>

\* lines 388, 417
WriteReturn ==
    /\ UNCHANGED <<parseVars, aggVars>>
    /\ wpc = "loop"
    /\ gidx = Len(groups)
    /\ wpc' = "done"
    /\ UNCHANGED <<kind, groups, gidx, files_written, files, reported>>

----------------------------------------------------------------------------
(* The texts and date folders parse_beacon_log is run on *)

MaxPieces == 3

Str_MMDD == <<"0", "8", "/", "1", "5">>
Str_Time == <<"1", "0", ":", "0", "0", ":", "0", "1">>
Str_UTC == <<"U", "T", "C">>
Str_Kind == <<"[", "i", "n", "]">>

\* 08/15 10:00:01 UTC [in] w
LineHeader == Str_MMDD \o <<" ">> \o Str_Time \o <<" ">> \o Str_UTC \o <<" ">> \o Str_Kind \o <<" ", "w">>
\* 02/29 09:59:59 UTC [out]   (an empty remainder; a date of leap years only)
LineLeapHeader ==
    <<"0", "2", "/", "2", "9", " ", "0", "9", ":", "5", "9", ":", "5", "9", " ">>
    \o Str_UTC \o <<" ", "[", "o", "u", "t", "]", " ">>
\* 13/40 25:00:00 UTC [x] y
LineMalformed ==
    <<"1", "3", "/", "4", "0", " ", "2", "5", ":", "0", "0", ":", "0", "0", " ">>
    \o Str_UTC \o <<" ", "[", "x", "]", " ", "y">>
\* 08/15 10:00:01 UTC [in]  w   (the free text starts with a blank)
LineHeaderBlankText ==
    Str_MMDD \o <<" ">> \o Str_Time \o <<" ">> \o Str_UTC \o <<" ">> \o Str_Kind \o <<" ", " ", "w">>
\* the pattern's whitespace runs and non-ASCII decimals: 08/<AD2><AD3>, a TAB, two blanks
LineHeaderLoose ==
    <<"0", "8", "/", "AD2", "AD3", "TAB">> \o Str_Time \o <<" ", " ">> \o Str_UTC
    \o <<"TAB">> \o Str_Kind \o <<" ", "w">>
\* a header line shifted right by one blank, with a trailing blank: no match
LineNearMiss == <<" ">> \o LineHeader \o <<" ">>
\* three lines: "x" ended by CR LF, a blank line ended by FF, an empty line ended by LF
LineBreaks == <<"x", "CR", "LF", " ", "TAB", "FF", "LF">>

\* the pieces a text is made of: lines ended by LF, and one piece that is not ended,
\* so that a text may end without a line break and a line may hold a header's
\* text after its first character
PieceSet ==
    {Append(l, "LF") : l \in {LineHeader, LineLeapHeader, LineMalformed,
                              LineHeaderBlankText, LineHeaderLoose}}
    \cup {LineBreaks, LineNearMiss}

Texts == {Concat(ps) : ps \in SeqsUpTo(PieceSet, MaxPieces)}

DateFolders ==
    {None,
     Some(<<>>),
     Some(<<"2", "3", "0", "8", "1", "5">>),
     Some(<<"2", "4", "0", "2", "2", "9">>),
     Some(<<"2", "3", "0", "8", "1", "a">>),
     Some(<<"AD2", "AD3", "0", "8", "1", "5">>),
     Some(<<"SUP2", "3", "0", "8", "1", "5">>)}

\* datetime.now().year
NowYears == {2027}

----------------------------------------------------------------------------
(* Idle values of the variables a specification does not use *)

ParseIdle ==
    /\ content = <<>> /\ date_folder = None /\ now_year = 0
    /\ lines = <<>> /\ idx = 0 /\ base_year = 0
    /\ entries = <<>> /\ current_entry = None /\ warnings = <<>> /\ pc = "idle"

AggIdle ==
    /\ heap = <<>> /\ entries_by_ip = <<>>
    /\ daily = None /\ last_call = None

WriteIdle ==
    /\ kind = "none" /\ groups = <<>> /\ gidx = 0 /\ files_written = 0
    /\ files = <<>> /\ reported = <<>> /\ wpc = "idle"

----------------------------------------------------------------------------
(* SpecParse: one call of parse_beacon_log on any text and date folder *)

InitParse ==
    /\ content \in Texts
    /\ date_folder \in DateFolders
    /\ now_year \in NowYears
    /\ lines = <<>> /\ idx = 0 /\ base_year = 0
    /\ entries = <<>> /\ current_entry = None /\ warnings = <<>>
    /\ pc = "start"
    /\ AggIdle /\ WriteIdle

NextParse ==
    \/ ParseEmpty
    \/ ParseInvalidDateFolder
    \/ ParseValidDateFolder
    \/ ParseYearValueError
    \/ ParseHeader
    \/ ParseMalformedHeader
    \/ ParseContinuation
    \/ ParseOrphan
    \/ ParseReturn

SpecParse == InitParse /\ [][NextParse]_vars

----------------------------------------------------------------------------
(* What the text holds, read off its lines *)

\* the pattern's verdict on every line: None or the groups
RECURSIVE Matches(_)
Matches(ls) == IF ls = <<>> THEN <<>> ELSE <<TimestampMatch(Head(ls))>> \o Matches(Tail(ls))

\* "text": no header line; "header": a header line whose fields form a date and
\* time of that year; "malformed": a header line whose fields do not
RECURSIVE Classes(_, _)
Classes(ms, year) ==
    IF ms = <<>> THEN <<>>
    ELSE <<IF IsNone(Head(ms)) THEN "text"
           ELSE IF IsNone(HeaderTimestamp(Get(Head(ms)), year)) THEN "malformed"
           ELSE "header">>
         \o Classes(Tail(ms), year)

\* the last header line among the first n lines, 0 when there is none
LastHeader(cl, n) ==
    LET hs == {i \in 1..n : cl[i] # "text"}
    IN  IF hs = {} THEN 0 ELSE CHOOSE i \in hs : \A j \in hs : j <= i

\* the first header line after line i among the first n lines, n + 1 when none
NextHeader(cl, i, n) ==
    LET hs == {j \in (i + 1)..n : cl[j] # "text"}
    IN  IF hs = {} THEN n + 1 ELSE CHOOSE j \in hs : \A k \in hs : j <= k

\* the Record of header line i, reading the first n lines only
RecordOf(ls, ms, cl, i, year, n) ==
    LogEntry(Get(HeaderTimestamp(Get(ms[i]), year)),
             Get(ms[i]).entry_type,
             <<Get(ms[i]).content_line>> \o SubSeq(ls, i + 1, NextHeader(cl, i, n) - 1),
             SourceFile, IpAddress, date_folder)

\* the Records of the constructible header lines i..n, in line order
RECURSIVE RecordsFrom(_, _, _, _, _, _)
RecordsFrom(ls, ms, cl, i, year, n) ==
    IF i > n THEN <<>>
    ELSE (IF cl[i] = "header" THEN <<RecordOf(ls, ms, cl, i, year, n)>> ELSE <<>>)
         \o RecordsFrom(ls, ms, cl, i + 1, year, n)

\* line j is not a header line and no Record is open when it is read
OrphanLine(cl, j) ==
    /\ cl[j] = "text"
    /\ LastHeader(cl, j - 1) = 0 \/ cl[LastHeader(cl, j - 1)] = "malformed"

NonBlank(line) == \E i \in 1..Len(line) : ~IsSpace(line[i])

CountKind(ws, k) == Cardinality({i \in 1..Len(ws) : ws[i].kind = k})

SixAsciiDigits(df) ==
    /\ ~IsNone(df)
    /\ Len(Get(df)) = 6
    /\ \A i \in 1..6 : Get(df)[i] \in AsciiDigits

\* 2000 + the first two digits, for a date folder of six ASCII digits
FolderYear(df) == 2000 + 10 * DigitValue(Get(df)[1]) + DigitValue(Get(df)[2])

\* the text has been split: lines holds its lines
Running == pc \in {"loop", "done"}

\* the lines read so far
Seen == IF pc = "done" THEN Len(lines) ELSE idx

\* the Records emitted, and the open one while the loop runs
Produced ==
    IF pc = "loop" /\ ~IsNone(current_entry) THEN Append(entries, Get(current_entry))
    ELSE entries

BodyLines(es) == Len(Concat([i \in 1..Len(es) |-> es[i].content]))

----------------------------------------------------------------------------
(* C1: with a valid date folder, the Records emitted, followed by the open *)
(* one, are at every step the Records of the constructible header lines    *)
(* read so far, in line order, each with the header remainder and then     *)
(* exactly the lines up to the next header line, verbatim; a Record is     *)
(* open exactly when the last header line read is constructible; at the    *)
(* end every Record has been emitted once.                                 *)
C1_OneRecordPerHeader ==
    (Running /\ SixAsciiDigits(date_folder)) =>
        LET year == FolderYear(date_folder)
            ms   == Matches(lines)
            cl   == Classes(ms, year)
            last == LastHeader(cl, Seen)
        IN  /\ lines = SplitLines(content)
            /\ Produced = RecordsFrom(lines, ms, cl, 1, year, Seen)
            /\ pc = "loop" => (~IsNone(current_entry) <=> (last # 0 /\ cl[last] = "header"))

\* two Records out of timestamp order, the first with continuation lines, emitted
C1_Witness ==
    /\ pc = "done" /\ SixAsciiDigits(date_folder)
    /\ Len(entries) = 2
    /\ Len(entries[1].content) > 2
    /\ TsLess(entries[2].timestamp, entries[1].timestamp)

(* C2: a header line whose timestamp cannot be built gives one             *)
(* malformed-timestamp warning and no Record, and leaves no Record open:   *)
(* the lines after it, up to the next header line, reach no body.          *)
C2_MalformedHeaderDropped ==
    Running =>
        LET n    == Seen
            cl   == Classes(Matches(lines), base_year)
            cs   == {i \in 1..n : cl[i] = "header"}
            bad  == {i \in 1..n : cl[i] = "malformed"}
            kept == {j \in 1..n : cl[j] = "text" /\ ~OrphanLine(cl, j)}
        IN  /\ CountKind(warnings, "malformed_timestamp") = Cardinality(bad)
            /\ \A k \in 1..Len(warnings) :
                   warnings[k].kind = "malformed_timestamp" =>
                       \E i \in bad : warnings[k].detail = Take(lines[i], 80)
            /\ Len(Produced) = Cardinality(cs)
            /\ BodyLines(Produced) = Cardinality(cs) + Cardinality(kept)
            /\ (pc = "loop" /\ LastHeader(cl, n) \in bad) => IsNone(current_entry)

\* a malformed header was read after a Record had been opened, and a line followed it
C2_Witness ==
    /\ pc = "done"
    /\ LET cl == Classes(Matches(lines), base_year)
       IN  \E i \in 2..(Len(lines) - 1) :
               /\ cl[i] = "malformed" /\ cl[i - 1] = "header"
               /\ cl[i + 1] = "text" /\ NonBlank(lines[i + 1])

(* C3: a line that is no header line and is read while no Record is open   *)
(* is discarded, with one orphaned-line warning when it holds a character  *)
(* that is not whitespace and none when it is blank; a text without header *)
(* lines gives no Record and one orphan warning per non-blank line.        *)
C3_OrphanLines ==
    Running =>
        LET n  == Seen
            cl == Classes(Matches(lines), base_year)
            os == {j \in 1..n : OrphanLine(cl, j) /\ NonBlank(lines[j])}
        IN  /\ CountKind(warnings, "orphaned_line") = Cardinality(os)
            /\ \A k \in 1..Len(warnings) :
                   warnings[k].kind = "orphaned_line" =>
                       \E j \in os : warnings[k].detail = Take(lines[j], 50)
            /\ (pc = "done" /\ LastHeader(cl, n) = 0) =>
                   /\ entries = <<>>
                   /\ CountKind(warnings, "orphaned_line")
                          = Cardinality({j \in 1..n : NonBlank(lines[j])})

\* no header line, a blank line and two lines that are not blank
C3_Witness ==
    /\ pc = "done"
    /\ \A j \in 1..Len(lines) : IsNone(TimestampMatch(lines[j]))
    /\ \E j \in 1..Len(lines) : ~NonBlank(lines[j])
    /\ CountKind(warnings, "orphaned_line") = 2

(* C4: for a text that is not empty, a date folder of six ASCII digits     *)
(* gives every Record the year 2000 + its first two digits and no          *)
(* date-folder warning; every other value gives one invalid-date-folder    *)
(* warning and the current year, and parsing goes on without an error.     *)
C4_YearResolution ==
    /\ pc # "error"
    /\ (Running /\ content # <<>>) =>
           LET n == CountKind(warnings, "invalid_date_folder")
           IN  IF SixAsciiDigits(date_folder)
               THEN /\ n = 0
                    /\ \A k \in 1..Len(Produced) :
                           Produced[k].timestamp.year = FolderYear(date_folder)
               ELSE /\ n = 1
                    /\ \A k \in 1..Len(Produced) : Produced[k].timestamp.year = now_year

(* C8: a text whose first line is a header line of the grammar             *)
(* MM/DD HH:MM:SS UTC [kind] <free text>, with a date and time that exist, *)
(* is rendered back from its first Record as exactly the lines of that     *)
(* first record: the header line and every continuation line.              *)
GrammarHeader(line) ==
    LET close == FindClose(line, 21)
    IN  /\ Len(line) >= 23
        /\ \A i \in {1, 2, 4, 5, 7, 8, 10, 11, 13, 14} : line[i] \in AsciiDigits
        /\ line[3] = "/" /\ line[6] = " " /\ line[9] = ":" /\ line[12] = ":"
        /\ SubSeq(line, 15, 20) = <<" ", "U", "T", "C", " ", "[">>
        /\ close > 21 /\ close < Len(line)
        /\ line[close + 1] = " "

C8_RoundTrip ==
    (pc = "done" /\ lines # <<>> /\ GrammarHeader(lines[1])) =>
        LET ms == Matches(lines)
            cl == Classes(ms, base_year)
        IN  cl[1] = "header" =>
                /\ entries # <<>>
                /\ SplitLines(Format(entries[1]))
                       = SubSeq(lines, 1, NextHeader(cl, 1, Len(lines)) - 1)

(* C10 as claimed: when a malformed header line is read while a Record is  *)
(* open, the body accumulated by that Record does not reach the output.    *)
C10_PriorRecordDiscarded ==
    pc = "done" =>
        LET ms == Matches(lines)
            cl == Classes(ms, base_year)
            n  == Len(lines)
        IN  \A j \in 2..n :
                (cl[j] = "malformed" /\ LastHeader(cl, j - 1) # 0
                     /\ cl[LastHeader(cl, j - 1)] = "header") =>
                    \A k \in 1..Len(entries) :
                        entries[k].content # RecordOf(lines, ms, cl, LastHeader(cl, j - 1),
                                                      base_year, n).content

(* C10: when a malformed header line is read while a Record is open, that  *)
(* Record is emitted with its whole accumulated body (the header remainder *)
(* and every continuation line up to the malformed header); only the       *)
(* malformed header's own Record is dropped.                               *)
C10_PriorRecordEmitted ==
    Running =>
        LET ms == Matches(lines)
            cl == Classes(ms, base_year)
        IN  \A j \in 2..Seen :
                (cl[j] = "malformed" /\ LastHeader(cl, j - 1) # 0
                     /\ cl[LastHeader(cl, j - 1)] = "header") =>
                    LET i == LastHeader(cl, j - 1)
                        k == Cardinality({h \in 1..i : cl[h] = "header"})
                    IN  /\ Len(entries) >= k
                        /\ entries[k] = RecordOf(lines, ms, cl, i, base_year, Seen)
                        /\ Len(entries[k].content) = j - i

\* a Record with a continuation line was open when a malformed header was read
C10_Witness ==
    /\ pc = "done"
    /\ LET cl == Classes(Matches(lines), base_year)
       IN  \E j \in 3..Len(lines) :
               /\ cl[j] = "malformed" /\ cl[j - 1] = "text"
               /\ LastHeader(cl, j - 1) # 0 /\ cl[LastHeader(cl, j - 1)] = "header"

----------------------------------------------------------------------------
(* SpecAgg: the aggregate operations, called in any order on a mapping of  *)
(* two keys over up to MaxRecords LogEntry objects                         *)

MaxRecords == 3

AggKeys == <<IpOf(5), IpOf(6)>>

AggTimestamps == {Datetime(2023, 8, 15, 10, 0, 1), Datetime(2023, 8, 15, 10, 0, 5)}

AggDateFolders ==
    {None, Some(<<>>), Some(<<"2", "3", "0", "8", "1", "5">>),
     Some(<<"2", "3", "0", "8", "1", "6">>)}

AggEntries ==
    {LogEntry(ts, <<"i", "n">>, <<<<"w">>>>, SourceFile, IpAddress, df) :
         ts \in AggTimestamps, df \in AggDateFolders}

Interval(a, b) == [i \in 1..(b - a + 1) |-> a + i - 1]

InitAgg ==
    /\ \E n \in 0..MaxRecords :
           /\ heap \in [1..n -> AggEntries]
           /\ \E a \in 0..n :
                  entries_by_ip = <<[key |-> AggKeys[1], val |-> Interval(1, a)],
                                    [key |-> AggKeys[2], val |-> Interval(a + 1, n)]>>
    /\ daily = None
    /\ last_call = None
    /\ content = <<>> /\ date_folder = None /\ now_year = 0
    /\ lines = <<>> /\ idx = 0 /\ base_year = 0
    /\ entries = <<>> /\ current_entry = None /\ warnings = <<>> /\ pc = "agg"
    /\ WriteIdle

NextAgg ==
    \/ AggregateByIp
    \/ AggregateByIpAndDate
    \/ AggregateSystemLogs

SpecAgg == InitAgg /\ [][NextAgg]_vars

(* What a call of an aggregate operation took and returned *)

Pos(l, o) == CHOOSE i \in 1..Len(l) : l[i] = o

Count(l, o) == Cardinality({i \in 1..Len(l) : l[i] = o})

SameTime(h, a, b) == h[a].timestamp = h[b].timestamp

NonDecreasing(h, l) ==
    \A i \in 1..(Len(l) - 1) : ~TsLess(h[l[i + 1]].timestamp, h[l[i]].timestamp)

IsPermutation(a, b) ==
    /\ Len(a) = Len(b)
    /\ \A o \in Range(a) \cup Range(b) : Count(a, o) = Count(b, o)

\* the output sequences that hold object o
HoldersOf(d, o) == {g \in 1..Len(d) : o \in Range(d[g].val)}

(* C5: every sequence an aggregate operation returns is in non-decreasing  *)
(* timestamp order, and two Records of equal timestamp of one input        *)
(* sequence keep their input order in every output sequence holding both.  *)
C5_SortedAndStable ==
    ~IsNone(last_call) =>
        LET c == Get(last_call)
        IN  \A g \in 1..Len(c.output) :
                LET out == c.output[g].val
                IN  /\ NonDecreasing(heap, out)
                    /\ \A f \in 1..Len(c.input) :
                           LET in == c.input[f].val
                           IN  \A p, q \in 1..Len(in) :
                                   (/\ p < q
                                    /\ SameTime(heap, in[p], in[q])
                                    /\ in[p] \in Range(out) /\ in[q] \in Range(out)) =>
                                       Pos(out, in[p]) < Pos(out, in[q])

\* a sequence of three, two of one timestamp in it, came back in another order
C5_Witness ==
    /\ ~IsNone(last_call)
    /\ Get(last_call).op = "aggregate_by_ip"
    /\ \E f \in 1..Len(Get(last_call).input) :
           LET in  == Get(last_call).input[f].val
               out == Get(last_call).output[f].val
           IN  /\ Len(in) = 3 /\ in # out
               /\ \E p, q \in 1..3 : p < q /\ SameTime(heap, in[p], in[q])

(* The composite grouping of the last call, for a given reading of which   *)
(* Records carry a date folder: every such Record of the input is in       *)
(* exactly one output sequence, once, the one keyed by its entity and its  *)
(* date folder; every other Record is in none; no output sequence is empty *)
(* or holds a Record of another entity or date folder.                     *)
CompositeGrouping(Dated(_)) ==
    (~IsNone(last_call) /\ Get(last_call).op = "aggregate_by_ip_and_date") =>
        LET in  == Get(last_call).input
            out == Get(last_call).output
        IN  /\ \A f \in 1..Len(in) : \A p \in 1..Len(in[f].val) :
                   LET o == in[f].val[p]
                   IN  IF Dated(heap[o])
                       THEN /\ \E g \in 1..Len(out) :
                                   /\ out[g].key = <<in[f].key, Get(heap[o].date_folder)>>
                                   /\ HoldersOf(out, o) = {g}
                                   /\ Count(out[g].val, o) = 1
                       ELSE HoldersOf(out, o) = {}
            /\ \A g \in 1..Len(out) :
                   /\ out[g].val # <<>>
                   /\ \A h \in 1..Len(out) : out[h].key = out[g].key => h = g
                   /\ \A o \in Range(out[g].val) :
                          /\ \E f \in 1..Len(in) :
                                 in[f].key = out[g].key[1] /\ o \in Range(in[f].val)
                          /\ heap[o].date_folder = Some(out[g].key[2])

DateFolderPresent(e) == ~IsNone(e.date_folder)

DateFolderNotEmpty(e) == e.date_folder \notin {None, Some(<<>>)}

C9_AggregationFrame ==
    [][/\ heap' = heap
       /\ ~IsNone(last_call')
       /\ LET c == Get(last_call')
          IN  /\ c.input = entries_by_ip
              /\ c.op \in {"aggregate_by_ip", "aggregate_system_logs"} =>
                     /\ c.output = entries_by_ip'
                     /\ Len(c.output) = Len(c.input)
                     /\ \A f \in 1..Len(c.input) :
                            /\ c.output[f].key = c.input[f].key
                            /\ IsPermutation(c.input[f].val, c.output[f].val)
              /\ c.op = "aggregate_by_ip_and_date" =>
                     /\ entries_by_ip' = entries_by_ip
                     /\ \A g \in 1..Len(c.output) : \A o \in Range(c.output[g].val) :
                            Count(c.output[g].val, o) = 1]_vars

\* aggregate_system_logs reordered a sequence holding two Records of one timestamp
C9_Witness ==
    /\ ~IsNone(last_call)
    /\ Get(last_call).op = "aggregate_system_logs"
    /\ \E f \in 1..Len(Get(last_call).input) :
           LET in == Get(last_call).input[f].val
           IN  /\ in # Get(last_call).output[f].val
               /\ \E p, q \in 1..Len(in) : p < q /\ SameTime(heap, in[p], in[q])

----------------------------------------------------------------------------
(* SpecWrite: one call of write_complete_logs or write_daily_logs on a     *)
(* grouping of up to MaxGroups groups of up to MaxGroupLen Records         *)

MaxGroups == 2
MaxGroupLen == 2

WriteEntries ==
    {LogEntry(Datetime(2023, 8, 15, 10, 0, 1), <<"i", "n">>, <<<<"w">>, <<" ", "x">>>>,
              SourceFile, IpAddress, Some(<<"2", "3", "0", "8", "1", "5">>)),
     LogEntry(Datetime(2023, 12, 31, 23, 59, 59), <<"o", "u", "t">>, <<>>,
              SourceFile, IpAddress, None)}

\* the keys of the groups, in the dict's order
CompleteKey(i) == IpOf(i)
DailyKeyAt(i) ==
    <<IpOf((i + 1) \div 2), <<"2", "3", "0", "8", "1", DigitChar(5 + (i % 2))>>>>

InitWrite ==
    /\ kind \in {"complete", "daily"}
    /\ \E n \in 0..MaxGroups :
           \E vals \in [1..n -> SeqsUpTo(WriteEntries, MaxGroupLen)] :
               groups = [i \in 1..n |->
                            [key |-> IF kind = "complete" THEN CompleteKey(i) ELSE DailyKeyAt(i),
                             val |-> vals[i]]]
    /\ gidx = 0 /\ files_written = 0 /\ files = <<>> /\ reported = <<>>
    /\ wpc = "start"
    /\ ParseIdle /\ AggIdle

NextWrite ==
    \/ WriteBegin
    \/ WriteMkdirRaises
    \/ WriteSkipEmpty
    \/ WriteGroup
    \/ WriteGroupFails
    \/ WriteReturn

SpecWrite == InitWrite /\ [][NextWrite]_vars

(* C7: the loop reaches every group; an empty group leaves no file; a      *)
(* group whose write fails is reported and the loop goes on; every other   *)
(* group's file holds its Records rendered in the group's order; the count *)
(* is the number of groups that are not empty and whose write succeeded.   *)
C7_WriteCount ==
    wpc \in {"loop", "done"} =>
        LET path(i)  == OutputFile(kind, groups[i].key)
            failed   == Range(reported)
            nonempty == {i \in 1..gidx : groups[i].val # <<>>}
            written  == {i \in nonempty : path(i) \notin failed}
        IN  /\ wpc = "done" => gidx = Len(groups)
            /\ files_written = Cardinality(written)
            /\ Len(reported) = Cardinality(nonempty \ written)
            /\ \A i \in written :
                   /\ path(i) \in DictKeys(files)
                   /\ DictGet(files, path(i)) = Render(groups[i].val)
            /\ \A i \in 1..gidx :
                   groups[i].val = <<>> => path(i) \notin DictKeys(files)

\* two groups, the write of the first failed, the second was written: the count is 1
C7_Witness ==
    /\ wpc = "done"
    /\ Len(groups) = 2
    /\ Len(groups[2].val) = 2
    /\ reported = <<OutputFile(kind, groups[1].key)>>
    /\ files_written = 1
    /\ OutputFile(kind, groups[2].key) \in DictKeys(files)

----------------------------------------------------------------------------
(* SpecMain: the beacon pipeline of main() on one log file: the file is    *)
(* parsed, its entries are collected under its address, both aggregations  *)
(* are made and both views are written.  The date folder handed to         *)
(* parse_beacon_log is any value of the parameter.                         *)

MaxMainPieces == 2

\* line 477: an empty file is skipped before parse_beacon_log is called
MainTexts == {Concat(ps) : ps \in SeqsUpTo(PieceSet, MaxMainPieces)} \ {<<>>}

\* the LogEntry objects behind the references of each list of a dict
Deref(h, d) ==
    [i \in 1..Len(d) |->
        [key |-> d[i].key, val |-> [j \in 1..Len(d[i].val) |-> h[d[i].val[j]]]]]

\* lines 481-487: beacon_entries_by_ip[ip].extend(entries)
MainExtend ==
    /\ pc = "done"
    /\ heap' = heap \o entries
    /\ entries_by_ip' = Append(entries_by_ip,
                               [key |-> Get(IpAddress),
                                val |-> Interval(Len(heap) + 1, Len(heap) + Len(entries))])
    /\ pc' = "collected"
    /\ UNCHANGED <<content, date_folder, now_year, lines, idx, base_year,
                   entries, current_entry, warnings>>
    /\ UNCHANGED <<daily, last_call, writeVars>>

\* line 526: aggregated_complete = LogAggregator.aggregate_by_ip(beacon_entries_by_ip)
MainAggregateByIp ==
    /\ pc = "collected"
    /\ entries_by_ip' = SortValues(heap, entries_by_ip)
    /\ last_call' = Call("aggregate_by_ip", entries_by_ip, entries_by_ip')
    /\ pc' = "complete"
    /\ UNCHANGED <<content, date_folder, now_year, lines, idx, base_year,
                   entries, current_entry, warnings>>
    /\ UNCHANGED <<heap, daily, writeVars>>

\* line 531: aggregated_daily = LogAggregator.aggregate_by_ip_and_date(beacon_entries_by_ip)
MainAggregateByIpAndDate ==
    /\ pc = "complete"
    /\ daily' = Some(SortValues(heap, GroupItems(heap, <<>>, entries_by_ip)))
    /\ last_call' = Call("aggregate_by_ip_and_date", entries_by_ip, Get(daily'))
    /\ pc' = "daily"
    /\ UNCHANGED <<content, date_folder, now_year, lines, idx, base_year,
                   entries, current_entry, warnings>>
    /\ UNCHANGED <<heap, entries_by_ip, writeVars>>

\* line 541: LogWriter.write_complete_logs(aggregated_complete, output_dir) is called
MainWriteComplete ==
    /\ pc = "daily"
    /\ kind' = "complete"
    /\ groups' = Deref(heap, entries_by_ip)
    /\ wpc' = "start"
    /\ pc' = "write_complete"
    /\ UNCHANGED <<content, date_folder, now_year, lines, idx, base_year,
                   entries, current_entry, warnings>>
    /\ UNCHANGED <<aggVars, gidx, files_written, files, reported>>

\* line 543: write_complete_logs has returned and
\* LogWriter.write_daily_logs(aggregated_daily, output_dir) is called
MainWriteDaily ==
    /\ pc = "write_complete"
    /\ wpc = "done"
    /\ kind' = "daily"
    /\ groups' = Deref(heap, Get(daily))
    /\ wpc' = "start"
    /\ pc' = "write_daily"
    /\ UNCHANGED <<content, date_folder, now_year, lines, idx, base_year,
                   entries, current_entry, warnings>>
    /\ UNCHANGED <<aggVars, gidx, files_written, files, reported>>

\* lines 545-551: write_daily_logs has returned; return 0
MainReturn ==
    /\ pc = "write_daily"
    /\ wpc = "done"
    /\ pc' = "returned"
    /\ UNCHANGED <<content, date_folder, now_year, lines, idx, base_year,
                   entries, current_entry, warnings>>
    /\ UNCHANGED <<aggVars, writeVars>>

InitMain ==
    /\ content \in MainTexts
    /\ date_folder \in DateFolders
    /\ now_year \in NowYears
    /\ lines = <<>> /\ idx = 0 /\ base_year = 0
    /\ entries = <<>> /\ current_entry = None /\ warnings = <<>>
    /\ pc = "start"
    /\ AggIdle /\ WriteIdle

NextMain ==
    \/ ParseInvalidDateFolder
    \/ ParseValidDateFolder
    \/ ParseYearValueError
    \/ ParseHeader
    \/ ParseMalformedHeader
    \/ ParseContinuation
    \/ ParseOrphan
    \/ ParseReturn
    \/ MainExtend
    \/ MainAggregateByIp
    \/ MainAggregateByIpAndDate
    \/ MainWriteComplete
    \/ WriteBegin
    \/ WriteMkdirRaises
    \/ WriteSkipEmpty
    \/ WriteGroup
    \/ WriteGroupFails
    \/ WriteReturn
    \/ MainWriteDaily
    \/ MainReturn

SpecMain == InitMain /\ [][NextMain]_vars

\* six characters, each one a digit (of any script)
SixDigitToken(t) == Len(t) = 6 /\ \A i \in 1..6 : IsDigit(t[i])

AbsentOrSixDigits(df) == IsNone(df) \/ SixDigitToken(Get(df))

\* the date token in the name daily/<ip>-<token>.log
DailyNameToken(path, ip) ==
    SubSeq(path, Len(Str_Daily) + Len(ip) + 3, Len(path) - Len(Str_Log))

IsDailyPath(path) == Take(path, Len(Str_Daily) + 1) = Str_Daily \o <<"/">>

(* C11: whatever date folder parse_beacon_log is given, every Record it    *)
(* emits has a date folder that is absent or six digits; so, once the      *)
(* Records are collected and grouped by aggregate_by_ip_and_date, every    *)
(* composite key has a six-digit date token, and so has the name of every  *)
(* per-day file written.                                                   *)
C11_SixDigitDateFolder ==
    /\ \A k \in 1..Len(Produced) : AbsentOrSixDigits(Produced[k].date_folder)
    /\ ~IsNone(daily) =>
           \A i \in 1..Len(Get(daily)) : SixDigitToken(Get(daily)[i].key[2])
    /\ \A i \in 1..Len(files) :
           IsDailyPath(files[i].key) =>
               LET token == DailyNameToken(files[i].key, Get(IpAddress))
               IN  /\ files[i].key = DailyPath(<<Get(IpAddress), token>>)
                   /\ SixDigitToken(token)

----------------------------------------------------------------------------
(* Spec: any one of the components, or the pipeline, at work *)

Init == InitParse \/ InitAgg \/ InitWrite \/ InitMain

Next == NextParse \/ NextAgg \/ NextWrite \/ NextMain

Spec == Init /\ [][Next]_vars

=============================================================================
